---- MODULE Spec2Model ----
(***************************************************************************)
(* EngagementTimer (src/engagement-timer.js): tracked-time accounting,     *)
(* mark evaluation, the self-rearming Interval ticker, the idle timeout,   *)
(* the throttled engagement handler and the visibility handler, driven by  *)
(* a wall clock and a queue of pending setTimeout callbacks.                *)
(*                                                                         *)
(* Times are integer milliseconds.  The JavaScript values NaN and          *)
(* undefined (which turns into NaN in every subtraction or addition the    *)
(* code performs on it) are one negative sentinel, NaN; every real time    *)
(* value of the program is >= 0.                                           *)
(***************************************************************************)
EXTENDS Integers, Sequences, FiniteSets, TLC

\* ------------------------------------------------------------------ bounds
\* The wall clock runs for at most MaxHalfSeconds half seconds after construction.
MaxHalfSeconds == 6
\* At most MaxOps calls of the public API / DOM events in one behaviour.
MaxOps == 3
\* Offsets and periods of the exact-timer configurations are drawn from 1..MaxMark.
MaxMark == 3
\* The values of opts.each and opts.every given to the constructor are drawn from
\* 0..MaxSeconds.
MaxSeconds == 6

\* --------------------------------------------------------- program values
\* Milliseconds per second (the factor in opts.max * 1000, opts.min * 1000, ...).
Sec == 1000

HalfSec == Sec \div 2

NaN == 0 - 1

\* The clock value at construction.
T0 == 2 * Sec

IsNum(x) == x # NaN

\* JavaScript a - b, a + b and the comparisons, with NaN absorbing.
Sub(a, b) == IF IsNum(a) /\ IsNum(b) THEN a - b ELSE NaN

Add(a, b) == IF IsNum(a) /\ IsNum(b) THEN a + b ELSE NaN

Lt(a, b) == IsNum(a) /\ IsNum(b) /\ a < b

Gt(a, b) == IsNum(a) /\ IsNum(b) /\ a > b

Le(a, b) == IsNum(a) /\ IsNum(b) /\ a <= b

\* Math.floor(x / 1000) for x >= 0 or NaN.
FloorSec(x) == IF IsNum(x) THEN x \div Sec ELSE NaN

\* Math.min(a, b): NaN if either is NaN.
MathMin(a, b) == IF IsNum(a) /\ IsNum(b) THEN (IF a < b THEN a ELSE b) ELSE NaN

\* The delay setTimeout really uses: NaN and negative delays are 0.
Delay(x) == IF IsNum(x) /\ x > 0 THEN x ELSE 0

Range(s) == {s[i] : i \in 1..Len(s)}

\* --------------------------------------------------------- pure functions
\* Array.prototype.sort(ascendingSort), as an insertion sort.
RECURSIVE Insert(_, _)
Insert(x, s) ==
    IF s = <<>> THEN <<x>>
    ELSE IF x <= Head(s) THEN <<x>> \o s
    ELSE <<Head(s)>> \o Insert(x, Tail(s))

RECURSIVE SortAsc(_)
SortAsc(s) == IF s = <<>> THEN <<>> ELSE Insert(Head(s), SortAsc(Tail(s)))

\* cleanMarks: drop the falsy numbers (0), sort ascending; duplicates stay.
RECURSIVE DropZero(_)
DropZero(s) ==
    IF s = <<>> THEN <<>>
    ELSE IF Head(s) = 0 THEN DropZero(Tail(s))
    ELSE <<Head(s)>> \o DropZero(Tail(s))

cleanMarks(arr) == SortAsc(DropZero(arr))

Abs(a) == IF a < 0 THEN 0 - a ELSE a

\* The while (true) loop of GCD, entered with a >= b >= 0.
RECURSIVE GCDLoop(_, _)
GCDLoop(a, b) ==
    IF b = 0 THEN a
    ELSE IF a % b = 0 THEN b
    ELSE GCDLoop(a % b, b % (a % b))

\* The smaller of the two values instead of their greatest common divisor.
GCDSmaller(a, b) == IF Abs(b) > Abs(a) THEN Abs(a) ELSE Abs(b)

GCD(a, b) == IF Abs(b) > Abs(a) THEN GCDLoop(Abs(b), Abs(a)) ELSE GCDLoop(Abs(a), Abs(b))

RECURSIVE Reduce(_, _)
Reduce(s, acc) == IF s = <<>> THEN acc ELSE Reduce(Tail(s), GCD(acc, Head(s)))

\* setGCD: a singleton returns its element; otherwise pop the last element and
\* fold GCD over the rest.  The empty array gives undefined.
setGCD(set) ==
    IF Len(set) = 1 THEN set[1]
    ELSE IF set = <<>> THEN NaN
    ELSE Reduce(SubSeq(set, 1, Len(set) - 1), set[Len(set)])

\* ------------------------------------------------------------------ state
VARIABLES
    cfg,        \* opts, as given to the constructor
    now,        \* the wall clock (+new Date)
    eng,        \* the EngagementTimer object, the closure variable pausedOnHide, the
                \* browser's queue of pending setTimeout callbacks, and the handler
                \* calls deferred (sent) and made (invoked) so far
    ops,        \* API calls and DOM events so far
    last,       \* the operation or callback that ran in the last step
    ranFor,     \* wall-clock milliseconds spent with _running = true
    delivered,  \* the marks of the 'interval' events emitted since construction / reset
    destroyed,  \* destroy() has been called
    resets,     \* reset() has been called
    maxed,      \* a tick has found _trackedTime > _max
    pauses,     \* pause() has been called
    misuse      \* pause() has been called on an engine that was not running

vars == <<cfg, now, eng, ops, last, ranFor, delivered, destroyed, resets, maxed, pauses,
          misuse>>

Opts(each, every, min, max, idleAfter, vis, startTime) ==
    [each |-> each, every |-> every, min |-> min, max |-> max,
     idleAfter |-> idleAfter, vis |-> vis, startTime |-> startTime]

\* The configurations explored; 0 stands for an option that is not supplied, and
\* startTime is absent (NaN), the construction time (as the tests pass it) or a
\* historical time.
Configs ==
    {Opts(<<3>>, <<2>>, 0, 0, 0, FALSE, NaN),
     Opts(<<>>, <<2>>, 0, 0, 0, FALSE, T0 - 3 * HalfSec),
     Opts(<<>>, <<1>>, 2, 0, 0, FALSE, T0),
     Opts(<<>>, <<2>>, 1, 0, 0, FALSE, NaN),
     Opts(<<>>, <<1>>, 0, 2, 0, FALSE, T0),
     Opts(<<>>, <<2>>, 0, 0, 2, TRUE, T0),
     Opts(<<1, 2>>, <<>>, 0, 0, 0, FALSE, NaN),
     Opts(<<2>>, <<2>>, 0, 3, 0, TRUE, NaN)}

\* The max test as >= instead of >.
OverMaxInclusive(t) == cfg.max # 0 /\ IsNum(t) /\ t >= cfg.max * Sec

\* this._max = opts.max * 1000 || Infinity, compared as this._trackedTime > this._max.
OverMax(t) == cfg.max # 0 /\ Gt(t, cfg.max * Sec)

\* this._min = opts.min * 1000 || 0, compared as this._trackedTime < this._min.
UnderMin(t) == Lt(t, cfg.min * Sec)

\* this._every at construction: one watermark per element of opts.every.
everyWatermarks ==
    [i \in 1..Len(cfg.every) |->
        IF cfg.min # 0 THEN (cfg.min % cfg.every[i]) + cfg.every[i] ELSE 0]

everyInitialValues == cleanMarks(cfg.every)

eachInitialValues == cleanMarks(cfg.each)

\* this._minInterval
minInterval ==
    LET g == setGCD(everyInitialValues \o eachInitialValues)
    IN  IF IsNum(g) THEN Sec * g ELSE NaN

\* The idle period without the extra millisecond.
idleAfterNoSlack == IF cfg.idleAfter # 0 THEN cfg.idleAfter * Sec ELSE 0

\* this._idleAfter = opts.idleAfter * 1000 + 1 || null (0 here).
idleAfter == IF cfg.idleAfter # 0 THEN cfg.idleAfter * Sec + 1 ELSE 0

\* The event names of the @emits list.
EventNames == {"interval", "reset", "start", "pause", "idle"}

\* One call handler(data): the handler, and the event's name and data.time (for
\* 'interval') or data.timestamp.  NoArg is the argument of the callbacks that take
\* none.
Invocation(h, name, t) == [handler |-> h, name |-> name, time |-> t]

NoArg == Invocation("", "", 0)

\* A pending setTimeout callback.  kind: "first" and "regular" are the callbacks of
\* Interval.prototype.tick for the Interval made by _startTimer and for the one made
\* inside its first tick, "idle" is the idle timeout, "later" the throttle's trailing
\* call, "ctor" the constructor's deferred _tick, "handler" a handler call deferred
\* by emit.  interval, cleared and cur are the
\* Interval object's _interval, its _cleared flag and whether this._Interval is it.
Timer(kind, due, interval, cleared, cur) ==
    [kind |-> kind, due |-> due, interval |-> interval, cleared |-> cleared, cur |-> cur,
     arg |-> NoArg]

\* The pending callback emit() makes for one handler: handler(data), delay 0.
HandlerTimer(due, arg) ==
    [kind |-> "handler", due |-> due, interval |-> 0, cleared |-> FALSE, cur |-> FALSE,
     arg |-> arg]

\* The engine right after new EngagementTimer(opts) at time T0.
Constructed ==
    LET tracked == IF IsNum(cfg.startTime) /\ cfg.startTime # 0
                   THEN T0 - cfg.startTime ELSE 0
    IN  [trackedTime |-> tracked,
         lastTick |-> cfg.startTime,
         tickElapsed |-> 0,
         running |-> FALSE,
         each |-> eachInitialValues,
         eachHasInitial |-> TRUE,
         every |-> everyWatermarks,
         everyHasInitial |-> TRUE,
         cache |-> {},
         idleTimer |-> FALSE,
         pausedOnHide |-> FALSE,
         timers |-> IF tracked # 0 THEN <<Timer("ctor", T0, 0, FALSE, FALSE)>> ELSE <<>>,
         events |-> [n \in EventNames |-> <<>>],
         sent |-> <<>>,
         invoked |-> <<>>,
         toCall |-> <<>>,
         out |-> <<>>,
         note |-> "new"]

Constructing(configs) ==
    /\ cfg \in configs
    /\ now = T0
    /\ eng = Constructed
    /\ ops = 0
    /\ last = "new"
    /\ ranFor = 0
    /\ delivered = <<>>
    /\ destroyed = FALSE
    /\ resets = FALSE
    /\ maxed = FALSE
    /\ pauses = FALSE
    /\ misuse = FALSE

Init == Constructing(Configs)

\* setTimeout(callback, delay): the browser runs pending callbacks by due time, and
\* in the order of the setTimeout calls among equal due times, so the queue is kept
\* in that order.
RECURSIVE schedule(_, _)
schedule(q, t) ==
    IF q = <<>> THEN <<t>>
    ELSE IF t.due < Head(q).due THEN <<t>> \o q
    ELSE <<Head(q)>> \o schedule(Tail(q), t)

\* ------------------------------------------------------- engine operations
\* Each operation maps the engine e (and the clock value d it reads) to the engine
\* after the call.  e.out collects the events passed to emit() during the step.

\* on(evt, handler): the handler is pushed on this._events[evt].
on(e, evt, handler) == [e EXCEPT !.events[evt] = Append(@, handler), !.note = "on"]

\* The forEach of emit: one setTimeout(..., 0) per handler, in registration order.
\* e.sent records the handler calls so deferred.
RECURSIVE dispatch(_, _, _, _)
dispatch(e, handlers, name, t) ==
    IF handlers = <<>> THEN e
    ELSE LET call == Invocation(Head(handlers), name, t)
         IN  dispatch([e EXCEPT !.timers = schedule(@, HandlerTimer(now + Delay(0), call)),
                                !.sent = Append(@, call)],
                      Tail(handlers), name, t)

\* emit calling the handlers at once instead of deferring them.
emitSync(e, name, t) ==
    LET hs == e.events[name]
        calls == [i \in 1..Len(hs) |-> Invocation(hs[i], name, t)]
    IN  [e EXCEPT !.out = Append(@, [name |-> name, time |-> t]),
                  !.sent = @ \o calls,
                  !.invoked = @ \o calls]

\* emit(name, data): data.time for 'interval', data.timestamp for the others.  e.out
\* records the call; with no handler registered for the name nothing else happens.
emit(e, name, t) ==
    dispatch([e EXCEPT !.out = Append(@, [name |-> name, time |-> t])],
             e.events[name], name, t)

\* this._Interval.clear(): sets _cleared on the Interval this._Interval refers to.
clearInterval(e) ==
    [e EXCEPT !.timers =
        [i \in 1..Len(e.timers) |->
            IF e.timers[i].cur THEN [e.timers[i] EXCEPT !.cleared = TRUE]
            ELSE e.timers[i]]]

\* clearTimeout(this._idleTimer): the idle timeout, if still pending, is dropped.
clearIdleTimer(e) ==
    [e EXCEPT !.timers = SelectSeq(e.timers, LAMBDA t : t.kind # "idle")]

_resetIdleTimeout(e, d) ==
    LET c == clearIdleTimer(e)
    IN  [c EXCEPT !.timers = schedule(@, Timer("idle", d + Delay(idleAfter), 0, FALSE, FALSE)),
                  !.idleTimer = TRUE]

\* _startTimer with a full poll period before the first tick, whatever _tickElapsed.
_startTimerFull(e, d) ==
    LET delay == Delay(minInterval)
        old   == [i \in 1..Len(e.timers) |-> [e.timers[i] EXCEPT !.cur = FALSE]]
    IN  [e EXCEPT !.timers = schedule(old, Timer("first", d + delay, delay, FALSE, TRUE))]

\* new Interval(first-tick function, Math.min(_minInterval - _tickElapsed, _minInterval))
_startTimer(e, d) ==
    LET delay == Delay(MathMin(Sub(minInterval, e.tickElapsed), minInterval))
        old   == [i \in 1..Len(e.timers) |-> [e.timers[i] EXCEPT !.cur = FALSE]]
    IN  [e EXCEPT !.timers = schedule(old, Timer("first", d + delay, delay, FALSE, TRUE))]

\* start() without the _running guard.
startNoGuard(e, d) ==
    LET a == IF ~e.idleTimer /\ idleAfter # 0 THEN _resetIdleTimeout(e, d) ELSE e
        b == _startTimer([a EXCEPT !.running = TRUE], d)
        c == [b EXCEPT !.lastTick = Sub(d, b.tickElapsed)]
    IN  [emit(c, "start", d) EXCEPT !.note = "started"]

start(e, d) ==
    IF e.running THEN [e EXCEPT !.note = "noop"]
    ELSE LET a == IF ~e.idleTimer /\ idleAfter # 0 THEN _resetIdleTimeout(e, d) ELSE e
             b == _startTimer([a EXCEPT !.running = TRUE], d)
             c == [b EXCEPT !.lastTick = Sub(d, b.tickElapsed)]
         IN  [emit(c, "start", d) EXCEPT !.note = "started"]

\* pause() without this._Interval.clear().
pauseNoClear(e, d) ==
    LET elapsed == Sub(d, e.lastTick)
        a == [e EXCEPT !.tickElapsed = elapsed,
                       !.trackedTime = Add(@, elapsed)]
        b == clearIdleTimer(a)
    IN  [emit([b EXCEPT !.running = FALSE], "pause", d) EXCEPT !.note = "paused"]

pause(e, d) ==
    LET elapsed == Sub(d, e.lastTick)
        a == [e EXCEPT !.tickElapsed = elapsed,
                       !.trackedTime = Add(@, elapsed)]
        b == clearIdleTimer(clearInterval(a))
    IN  [emit([b EXCEPT !.running = FALSE], "pause", d) EXCEPT !.note = "paused"]

\* this._each.initialValues is undefined once reset() has replaced this._each by a
\* plain copy: the first statement then throws a TypeError and nothing is changed.
reset(e, d) ==
    IF ~e.eachHasInitial THEN [e EXCEPT !.note = "resetThrew"]
    ELSE emit([e EXCEPT !.each = eachInitialValues,
                        !.eachHasInitial = FALSE,
                        !.every = everyInitialValues,
                        !.everyHasInitial = FALSE,
                        !.lastTick = d,
                        !.trackedTime = 0,
                        !.cache = {},
                        !.note = "reset"],
              "reset", d)

\* clearTimeout(this._idleTimeout) clears nothing: no such field is ever set.
destroy(e) == clearInterval(e)

\* The each loop of _checkMarks: the offsets shifted off this._each.
RECURSIVE eachDue(_, _)
eachDue(each, curr) ==
    IF each = <<>> \/ Gt(Head(each), curr) THEN <<>>
    ELSE <<Head(each)>> \o eachDue(Tail(each), curr)

\* The every loop of _checkMarks, for the watermark memo of period n.
everyCount(n, memo, curr) == (curr - memo) \div n

\* everyDue pushing n * j, the watermark left out.
everyDueNoMemo(n, memo, curr) ==
    IF Le(memo, curr) THEN [j \in 1..everyCount(n, memo, curr) |-> n * j]
    ELSE <<>>

everyDue(n, memo, curr) ==
    IF Le(memo, curr) THEN [j \in 1..everyCount(n, memo, curr) |-> n * j + memo]
    ELSE <<>>

everyNext(n, memo, curr) ==
    IF Le(memo, curr) THEN n * everyCount(n, memo, curr) ELSE memo

RECURSIVE Flatten(_)
Flatten(ss) == IF ss = <<>> THEN <<>> ELSE Head(ss) \o Flatten(Tail(ss))

\* _checkMark with the _cache test left out.
RECURSIVE _checkMarkNoCache(_, _)
_checkMarkNoCache(e, toCall) ==
    IF toCall = <<>> THEN e
    ELSE _checkMarkNoCache(
             emit([e EXCEPT !.cache = @ \cup {Head(toCall)}], "interval", Head(toCall)),
             Tail(toCall))

\* _checkMark over the sorted toCall list: emit each mark not yet in _cache.
RECURSIVE _checkMark(_, _)
_checkMark(e, toCall) ==
    IF toCall = <<>> THEN e
    ELSE LET m == Head(toCall)
         IN  IF m \in e.cache THEN _checkMark(e, Tail(toCall))
             ELSE _checkMark(emit([e EXCEPT !.cache = @ \cup {m}], "interval", m),
                             Tail(toCall))

\* _checkMarks.  Reading this._every.initialValues[i] throws a TypeError once reset()
\* has replaced this._every by a plain copy; the each loop has run by then.
_checkMarks(e) ==
    LET curr  == FloorSec(e.trackedTime)
        due   == eachDue(e.each, curr)
        a     == [e EXCEPT !.each = SubSeq(@, Len(due) + 1, Len(@))]
        n     == everyInitialValues
    IN  IF Len(e.every) > 0 /\ ~e.everyHasInitial THEN [a EXCEPT !.note = "threw"]
        ELSE LET evs == [i \in 1..Len(e.every) |-> everyDue(n[i], e.every[i], curr)]
                 b   == [a EXCEPT !.every =
                            [i \in 1..Len(e.every) |-> everyNext(n[i], e.every[i], curr)],
                                  !.note = "checked"]
                 toCall == SortAsc(due \o Flatten(evs))
             IN  _checkMark([b EXCEPT !.toCall = toCall], toCall)

\* _tick without the pre-minimum return.
_tickNoMin(e, d) ==
    LET a == [e EXCEPT !.trackedTime = Add(@, Sub(d, e.lastTick)),
                       !.lastTick = d]
    IN  IF OverMax(a.trackedTime) THEN [destroy(a) EXCEPT !.note = "max"]
        ELSE _checkMarks(a)

_tick(e, d) ==
    LET a == [e EXCEPT !.trackedTime = Add(@, Sub(d, e.lastTick)),
                       !.lastTick = d]
    IN  IF UnderMin(a.trackedTime) THEN [a EXCEPT !.note = "min"]
        ELSE IF OverMax(a.trackedTime) THEN [destroy(a) EXCEPT !.note = "max"]
        ELSE _checkMarks(a)

\* ------------------------------------------------------- timer callbacks
RemoveAt(s, i) == SubSeq(s, 1, i - 1) \o SubSeq(s, i + 1, Len(s))

dropTimer(e, i) == [e EXCEPT !.timers = RemoveAt(@, i)]

\* The function _startTimer gives its Interval, then Interval.prototype.tick's
\* this.tick(): _tick, clear this._Interval, make the regular Interval, zero
\* _tickElapsed; the Interval that ran re-arms its own (now inert) timeout.  A throw
\* inside _tick leaves the callback at once: nothing is re-armed.
firstTick(e, i, d) ==
    LET a == _tick(e, d)
    IN  IF a.note = "threw" THEN dropTimer(a, i)
        ELSE LET b    == clearInterval(a)
                 self == b.timers[i]
                 rest == [k \in 1..Len(b.timers) |-> [b.timers[k] EXCEPT !.cur = FALSE]]
                 made == Timer("regular", d + Delay(minInterval), minInterval, FALSE, TRUE)
                 more == [self EXCEPT !.due = d + Delay(self.interval), !.cur = FALSE]
             IN  [b EXCEPT !.timers = schedule(schedule(RemoveAt(rest, i), made), more),
                           !.tickElapsed = 0]

\* Interval.prototype.tick's callback for the regular Interval: this._fn() is _tick,
\* then this.tick() re-arms the timeout.
regularTick(e, i, d) ==
    LET a == _tick(e, d)
    IN  IF a.note = "threw" THEN dropTimer(a, i)
        ELSE LET self == a.timers[i]
             IN  [a EXCEPT !.timers =
                     schedule(RemoveAt(@, i), [self EXCEPT !.due = d + Delay(self.interval)])]

\* The callback of _resetIdleTimeout.
idleTimeout(e, i, d) ==
    LET a == pause(dropTimer(e, i), d)
    IN  [emit(a, "idle", d) EXCEPT !.idleTimer = FALSE, !.note = "idle"]

\* throttledRestart's function without the start() of an engine that is not running.
throttledRestartNoStart(e, d) == _resetIdleTimeout(e, d)

\* throttledRestart's function, run by the throttle's trailing timeout.
throttledRestart(e, d) ==
    LET a == IF ~e.running THEN start(e, d) ELSE e
    IN  _resetIdleTimeout(a, d)

\* The throttled handler itself: wait is this._idleTimeout / 2, and _idleTimeout is
\* never set, so wait and remaining are NaN: the leading branch (remaining <= 0) is
\* never taken, and a trailing call is scheduled with delay NaN (0) unless one is
\* pending.
engagementEvent(e, d) ==
    IF \E i \in 1..Len(e.timers) : e.timers[i].kind = "later"
    THEN [e EXCEPT !.note = "throttled"]
    ELSE [e EXCEPT !.timers = schedule(@, Timer("later", d + Delay(NaN), 0, FALSE, FALSE)),
                   !.note = "scheduled"]

\* The listener added to the document whatever opts.context is.
listenerOnDocument(hasContext, inside) == TRUE

\* this._context.addEventListener(evt, throttledRestart): the listener is on the
\* context element, which is the document when opts.context is absent, so an event
\* reaches it when its target is inside the context (inside) or when there is no
\* context (hasContext false).
listenerReached(hasContext, inside) == ~hasContext \/ inside

\* An engagement event dispatched in the document.
domEvent(e, hasContext, inside, d) ==
    IF listenerReached(hasContext, inside) THEN engagementEvent(e, d)
    ELSE [e EXCEPT !.note = "unheard"]

\* The handler pausing on every hidden transition, whether the engine runs or not.
visibilityChangeNoGuard(e, isHidden, d) ==
    IF isHidden THEN [pause(e, d) EXCEPT !.pausedOnHide = TRUE]
    ELSE IF ~isHidden /\ ~e.running /\ e.pausedOnHide THEN start(e, d)
    ELSE [e EXCEPT !.note = "noop"]

\* The handler given to onVisibilityChange.
visibilityChange(e, isHidden, d) ==
    IF isHidden /\ e.running THEN [pause(e, d) EXCEPT !.pausedOnHide = TRUE]
    ELSE IF ~isHidden /\ ~e.running /\ e.pausedOnHide THEN start(e, d)
    ELSE [e EXCEPT !.note = "noop"]

\* What the callback of pending timer i does when it runs at time d.
runTimer(e, i, d) ==
    LET t == e.timers[i]
    IN  CASE t.kind \in {"first", "regular"} /\ t.cleared ->
                [dropTimer(e, i) EXCEPT !.note = "cleared"]
          [] t.kind = "first" /\ ~t.cleared -> firstTick(e, i, d)
          [] t.kind = "regular" /\ ~t.cleared -> regularTick(e, i, d)
          [] t.kind = "idle" -> idleTimeout(e, i, d)
          [] t.kind = "later" -> throttledRestart(dropTimer(e, i), d)
          [] t.kind = "ctor" -> _tick(dropTimer(e, i), d)
          [] t.kind = "handler" ->
                [dropTimer(e, i) EXCEPT !.invoked = Append(@, t.arg), !.note = "handled"]

\* ---------------------------------------------------------------- actions
\* The engine at the start of a step: nothing emitted yet, no marks collected.
Fresh == [eng EXCEPT !.out = <<>>, !.note = "", !.toCall = <<>>]

\* The marks of the 'interval' events among the emitted events out.
Marks(out) ==
    LET iv == SelectSeq(out, LAMBDA ev : ev.name = "interval")
    IN  [i \in 1..Len(iv) |-> iv[i].time]

Horizon == T0 + MaxHalfSeconds * HalfSec

NextHalfSec == (now \div HalfSec + 1) * HalfSec

\* The clock moves from now to t.
AdvanceTo(t) ==
    /\ now' = t
    /\ ranFor' = IF eng.running THEN ranFor + (t - now) ELSE ranFor
    /\ eng' = Fresh
    /\ last' = "advance"
    /\ UNCHANGED <<cfg, ops, delivered, destroyed, resets, maxed, pauses, misuse>>

\* A pending timeout whose time has come runs its callback.
FireTimer(i) ==
    /\ eng.timers[i].due <= now
    /\ LET e == runTimer(Fresh, i, now)
       IN  /\ eng' = e
           /\ delivered' = delivered \o Marks(e.out)
           /\ destroyed' = (destroyed \/ e.note = "max")
           /\ maxed' = (maxed \/ e.note = "max")
    /\ pauses' = (pauses \/ eng.timers[i].kind = "idle")
    /\ misuse' = (misuse \/ (eng.timers[i].kind = "idle" /\ ~eng.running))
    /\ last' = eng.timers[i].kind
    /\ UNCHANGED <<cfg, now, ops, ranFor, resets>>

\* The clock is observed every half second.  Pending timeouts need not have run when
\* it moves on: callbacks may be arbitrarily late.
Advance == NextHalfSec <= Horizon /\ AdvanceTo(NextHalfSec)

Fire == \E i \in 1..Len(eng.timers) : FireTimer(i)

\* A call of the public API, or a DOM event reaching a listener.
Call(e, name) ==
    /\ ops < MaxOps
    /\ ops' = ops + 1
    /\ eng' = e
    /\ last' = name
    /\ UNCHANGED <<cfg, now, ranFor, maxed>>

Start ==
    /\ Call(start(Fresh, now), "start")
    /\ UNCHANGED <<delivered, destroyed, resets, pauses, misuse>>

Pause ==
    /\ Call(pause(Fresh, now), "pause")
    /\ pauses' = TRUE
    /\ misuse' = (misuse \/ ~eng.running)
    /\ UNCHANGED <<delivered, destroyed, resets>>

Reset ==
    /\ Call(reset(Fresh, now), "reset")
    /\ delivered' = IF eng.eachHasInitial THEN <<>> ELSE delivered
    /\ resets' = TRUE
    /\ UNCHANGED <<destroyed, pauses, misuse>>

Destroy ==
    /\ Call([destroy(Fresh) EXCEPT !.note = "destroyed"], "destroy")
    /\ destroyed' = TRUE
    /\ UNCHANGED <<delivered, resets, pauses, misuse>>

\* An engagement event dispatched inside the context element.
Engage ==
    /\ cfg.idleAfter # 0
    /\ Call(engagementEvent(Fresh, now), "engage")
    /\ UNCHANGED <<delivered, destroyed, resets, pauses, misuse>>

\* visibilitychange (or blur / focus) with document.hidden = isHidden.
Visibility ==
    /\ cfg.vis
    /\ \E isHidden \in BOOLEAN :
          /\ Call(visibilityChange(Fresh, isHidden, now), IF isHidden THEN "hide" ELSE "show")
          /\ pauses' = (pauses \/ (isHidden /\ eng.running))
    /\ UNCHANGED <<delivered, destroyed, resets, misuse>>

Next ==
    \/ Advance
    \/ Fire
    \/ Start
    \/ Pause
    \/ Reset
    \/ Destroy
    \/ Engage
    \/ Visibility

Spec == Init /\ [][Next]_vars

\* ------------------------------------------------------------ exact timers
\* The engine with no min, no max, no idle detection and no startTime, for every
\* list of at most two offsets and at most two periods from 1..MaxMark (unsorted
\* and repeated values included), driven by timers that run exactly when due: the
\* clock never passes a pending timeout, and callbacks run in queue order.
MarkLists ==
    {<<>>} \cup {<<a>> : a \in 1..MaxMark} \cup {<<a, b>> : a, b \in 1..MaxMark}

ExactConfigs ==
    {Opts(each, every, 0, 0, 0, FALSE, NaN) :
        each \in MarkLists, every \in MarkLists} \ {Opts(<<>>, <<>>, 0, 0, 0, FALSE, NaN)}

ExactHorizon == T0 + 2 * MaxMark * Sec

NextDue == IF eng.timers = <<>> THEN NextHalfSec ELSE eng.timers[1].due

AdvanceExact ==
    /\ NextDue > now
    /\ LET t == IF NextDue < NextHalfSec THEN NextDue ELSE NextHalfSec
       IN  t <= ExactHorizon /\ AdvanceTo(t)

FireExact == eng.timers # <<>> /\ FireTimer(1)

InitExact == Constructing(ExactConfigs)

NextExact ==
    \/ AdvanceExact
    \/ FireExact
    \/ Start

SpecExact == InitExact /\ [][NextExact]_vars

\* -------------------------------------------------------- idle detection
\* The engine with idle detection (the 'should go idle' configuration; each only
\* with a two-second idle period) and one with max alone, driven by timers that run
\* exactly when due and in queue order, by start(), pause() and destroy(), and by
\* engagement events.  No method is called on an engine that has been destroyed;
\* DOM events and pending timeouts go on reaching it.
IdleConfigs ==
    {Opts(<<>>, <<1>>, 0, 0, 1, FALSE, T0),
     Opts(<<1, 2>>, <<>>, 0, 0, 2, FALSE, T0),
     Opts(<<>>, <<1>>, 0, 1, 0, FALSE, T0)}

\* The clock moves to the next due time or the next half second, whichever is first.
AdvanceDue ==
    /\ NextDue > now
    /\ LET t == IF NextDue < NextHalfSec THEN NextDue ELSE NextHalfSec
       IN  t <= Horizon /\ AdvanceTo(t)

LiveStart == ~destroyed /\ Start

LivePause == ~destroyed /\ Pause

LiveDestroy == ~destroyed /\ Destroy

InitIdle == Constructing(IdleConfigs)

NextIdle ==
    \/ AdvanceDue
    \/ FireExact
    \/ LiveStart
    \/ LivePause
    \/ LiveDestroy
    \/ Engage

SpecIdle == InitIdle /\ [][NextIdle]_vars

\* ------------------------------------------------------ page visibility
\* The 'should go idle when document.hidden == true' configuration, driven by
\* timers that run exactly when due, by start() and pause(), and by visibility
\* changes; a behaviour may hold two more calls or events than MaxOps.
VisConfigs == {Opts(<<>>, <<1>>, 0, 0, 0, TRUE, T0)}

VisOps == MaxOps + 2

CallWithin(n, e, name) ==
    /\ ops < n
    /\ ops' = ops + 1
    /\ eng' = e
    /\ last' = name
    /\ UNCHANGED <<cfg, now, ranFor, maxed>>

VisStart ==
    /\ CallWithin(VisOps, start(Fresh, now), "start")
    /\ UNCHANGED <<delivered, destroyed, resets, pauses, misuse>>

VisPause ==
    /\ CallWithin(VisOps, pause(Fresh, now), "pause")
    /\ pauses' = TRUE
    /\ misuse' = (misuse \/ ~eng.running)
    /\ UNCHANGED <<delivered, destroyed, resets>>

VisChange ==
    /\ \E isHidden \in BOOLEAN :
          /\ CallWithin(VisOps, visibilityChange(Fresh, isHidden, now),
                        IF isHidden THEN "hide" ELSE "show")
          /\ pauses' = (pauses \/ (isHidden /\ eng.running))
    /\ UNCHANGED <<delivered, destroyed, resets, misuse>>

InitVis == Constructing(VisConfigs)

NextVis ==
    \/ AdvanceDue
    \/ FireExact
    \/ VisStart
    \/ VisPause
    \/ VisChange

SpecVis == InitVis /\ [][NextVis]_vars

\* ------------------------------------------------------ handler dispatch
\* An engine with every [1] and a startTime one second before construction (its
\* deferred first tick emits the marks 1 and 2 at once), driven by timers that run
\* exactly when due and in queue order, by start() and pause(), and by on()
\* registering either of two handlers for 'interval' or 'start'.
DispatchConfigs == {Opts(<<>>, <<1>>, 0, 0, 0, FALSE, T0 - Sec)}

Handlers == {"h1", "h2"}

On ==
    /\ \E evt \in {"interval", "start"}, handler \in Handlers :
          Call(on(Fresh, evt, handler), "on")
    /\ UNCHANGED <<delivered, destroyed, resets, pauses, misuse>>

InitDispatch == Constructing(DispatchConfigs)

NextDispatch ==
    \/ AdvanceDue
    \/ FireExact
    \/ On
    \/ Start
    \/ Pause

SpecDispatch == InitDispatch /\ [][NextDispatch]_vars

\* ----------------------------------------------------------- construction
\* new EngagementTimer(opts) for every opts whose each and every are absent or
\* lists of at most two values from 0..MaxSeconds (0: a value Number() makes falsy,
\* which cleanMarks drops), unsorted and repeated values included.  hasEach and
\* hasEvery tell a supplied list, which may be empty, from an absent option.
RawLists ==
    {<<>>} \cup {<<a>> : a \in 0..MaxSeconds} \cup {<<a, b>> : a, b \in 0..MaxSeconds}

CtorInputs ==
    {[each |-> each, every |-> every, min |-> 0, max |-> 0, idleAfter |-> 0,
      vis |-> FALSE, startTime |-> NaN, hasEach |-> hasEach, hasEvery |-> hasEvery] :
        each \in RawLists, every \in RawLists, hasEach \in BOOLEAN, hasEvery \in BOOLEAN}

\* The constructor's first test: !opts.each && !opts.every throws; an empty array
\* is truthy.  What it returns otherwise is the engine.
EngagementTimer(opts) ==
    IF ~opts.hasEach /\ ~opts.hasEvery THEN [note |-> "threw"]
    ELSE [Constructed EXCEPT !.note = "constructed"]

InitCtor ==
    /\ cfg \in {c \in CtorInputs : (c.each # <<>> => c.hasEach) /\ (c.every # <<>> => c.hasEvery)}
    /\ now = T0
    /\ eng = [note |-> "opts"]
    /\ ops = 0
    /\ last = "opts"
    /\ ranFor = 0
    /\ delivered = <<>>
    /\ destroyed = FALSE
    /\ resets = FALSE
    /\ maxed = FALSE
    /\ pauses = FALSE
    /\ misuse = FALSE

Construct ==
    /\ eng.note = "opts"
    /\ eng' = EngagementTimer(cfg)
    /\ last' = "new"
    /\ UNCHANGED <<cfg, now, ops, ranFor, delivered, destroyed, resets, maxed, pauses,
                   misuse>>

NextCtor == Construct

SpecCtor == InitCtor /\ [][NextCtor]_vars

\* ------------------------------------------------------ engagement events
\* Engines that only engagement events start: the configuration of the context
\* tests (every [1], idleAfter 1, a context element) and one without context and
\* with a two-second idle period, driven by timers that run exactly when due and by
\* engagement events dispatched inside or outside the context element.
EventConfigs ==
    {[each |-> <<>>, every |-> <<1>>, min |-> 0, max |-> 0, idleAfter |-> 1,
      vis |-> FALSE, startTime |-> T0, context |-> TRUE],
     [each |-> <<>>, every |-> <<2>>, min |-> 0, max |-> 0, idleAfter |-> 2,
      vis |-> FALSE, startTime |-> T0, context |-> FALSE]}

DomEvent ==
    /\ \E inside \in BOOLEAN :
          Call(domEvent(Fresh, cfg.context, inside, now),
               IF inside THEN "engage" ELSE "outside")
    /\ UNCHANGED <<delivered, destroyed, resets, pauses, misuse>>

InitEvents == Constructing(EventConfigs)

NextEvents ==
    \/ AdvanceDue
    \/ FireExact
    \/ DomEvent

SpecEvents == InitEvents /\ [][NextEvents]_vars

\* ------------------------------------------------------ reset between runs
\* Engines with offsets only and with a period only, driven by timers that run
\* exactly when due and by start(), pause() and reset().
ResetConfigs ==
    {Opts(<<1, 2>>, <<>>, 0, 0, 0, FALSE, T0),
     Opts(<<>>, <<1>>, 0, 0, 0, FALSE, T0)}

ResetWithin ==
    /\ CallWithin(VisOps, reset(Fresh, now), "reset")
    /\ delivered' = IF eng.eachHasInitial THEN <<>> ELSE delivered
    /\ resets' = TRUE
    /\ UNCHANGED <<destroyed, pauses, misuse>>

InitReset == Constructing(ResetConfigs)

NextReset ==
    \/ AdvanceDue
    \/ FireExact
    \/ VisStart
    \/ VisPause
    \/ ResetWithin

SpecReset == InitReset /\ [][NextReset]_vars

\* ----------------------------------------------------------------- claims
\* The step that led here ran _tick (to its end, or to a throw inside _checkMarks).
Ticked == eng.note \in {"min", "max", "checked", "threw"}

NoDuplicates(q) == \A i, j \in 1..Len(q) : i # j => q[i] # q[j]

Ascending(q) == \A i \in 1..Len(q) - 1 : q[i] <= q[i + 1]

\* C1: between two construction / reset boundaries no mark value is carried by more
\* than one 'interval' event, whatever the timing of the ticks and the interleaving
\* of start(), pause(), idle, engagement and visibility callbacks.
C1_AtMostOnce == NoDuplicates(delivered)

\* A tick whose due list held a mark that had been delivered before: it was not
\* delivered again.
C1_Witness ==
    /\ eng.note = "checked"
    /\ \E m \in Range(eng.toCall) : m \notin Range(Marks(eng.out)) /\ m \in Range(delivered)
    /\ pauses

\* The marks due at tracked second curr: the each offsets and the multiples of the
\* every periods that are <= curr and not below min.
DueMarks(curr) ==
    {m \in Range(eachInitialValues) : m <= curr}
    \cup {m \in 1..curr :
             m >= cfg.min /\ \E p \in Range(everyInitialValues) : m % p = 0}

\* C2: when a tick has evaluated the marks at tracked second curr, every due mark
\* has been emitted and the marks this tick emitted are in ascending order.
C2_CatchUp ==
    (eng.note = "checked" /\ IsNum(eng.trackedTime))
        => /\ DueMarks(FloorSec(eng.trackedTime)) \subseteq eng.cache
           /\ Ascending(Marks(eng.out))

\* The marks the configuration puts at or before second T.
Expected(T) ==
    {m \in Range(cfg.each) : m <= T}
    \cup {m \in 1..T : \E p \in Range(cfg.every) : m % p = 0}

\* C3: with no min, no max, no pause and exact ticks, the values delivered by
\* tracked second T are exactly the each offsets <= T and the multiples k * p <= T
\* of the every periods, one event per value; tracked time at a tick is the time
\* since start().
C3_ExactMarks ==
    /\ Range(delivered) = Expected(FloorSec(eng.trackedTime))
    /\ NoDuplicates(delivered)
    /\ Ticked => eng.trackedTime = ranFor

\* every [2], each [3] after 4 seconds: three events, 2, 3 and 4.
C3_Witness ==
    /\ cfg.each = <<3>> /\ cfg.every = <<2>>
    /\ eng.trackedTime = 4 * Sec
    /\ delivered = <<2, 3, 4>>

\* An 'interval' event was emitted in the step that led here.
Emitting == Marks(eng.out) # <<>>

\* C4: with min configured, a tick that finds _trackedTime < min * 1000 returns
\* before the marks are evaluated and emits nothing; a tick that does not find it
\* so goes on to the max test and the marks; no step emits an 'interval' event while
\* _trackedTime < min * 1000.
C4_MinBoundary ==
    /\ (IsNum(eng.trackedTime) /\ eng.trackedTime < cfg.min * Sec) => ~Emitting
    /\ Ticked =>
          (eng.note = "min" <=> (IsNum(eng.trackedTime) /\ eng.trackedTime < cfg.min * Sec))

\* A tick ran below the minimum and returned.
C4_Witness ==
    /\ cfg.min # 0
    /\ eng.note = "min"
    /\ eng.trackedTime > 0
    /\ eng.toCall = <<>> /\ ~Emitting

\* max is one of the configured marks: an each offset or a multiple of a period.
MaxIsMark ==
    \/ cfg.max \in Range(cfg.each)
    \/ \E p \in Range(cfg.every) : cfg.max % p = 0

Historical == IsNum(cfg.startTime) /\ cfg.startTime < T0

\* The engine is paused: pause() has returned and start() has not run since.
Paused == pauses /\ ~eng.running

\* C6: from the return of a pause() that stopped a running engine to the next
\* start(), _trackedTime does not change and no 'interval' event is emitted
\* (reset(), which zeroes _trackedTime, aside).
C6_FrozenWhilePaused ==
    [][(Paused /\ ~misuse /\ ~eng'.running /\ last' # "reset")
        => (eng'.trackedTime = eng.trackedTime /\ Marks(eng'.out) = <<>>)]_vars

\* C7: with start(), pause() and ticks only (no reset, no destroy, no historical
\* startTime, pause() called on a running engine only), _trackedTime of a paused
\* engine is the wall-clock time the engine has been running, and so is
\* _trackedTime at a tick: the remainder pause() recorded is counted once.
C7_NoDoubleCounting ==
    (/\ cfg.idleAfter = 0 /\ ~cfg.vis /\ cfg.max = 0 /\ ~Historical
     /\ ~resets /\ ~destroyed /\ ~misuse
     /\ (Paused \/ Ticked))
        => eng.trackedTime = ranFor

\* The fields of the engine and the timer queue, without the record of the step.
Code(e) == [e EXCEPT !.out = <<>>, !.note = "", !.toCall = <<>>]

\* C8: start() on a running engine changes nothing: _trackedTime, _lastTick,
\* _tickElapsed, the ticker, the idle deadline and every other field stay as they
\* were, no timeout is added and no event is emitted.
C8_StartNoop ==
    [][(last' = "start" /\ eng.running)
        => (Code(eng') = Code(eng) /\ eng'.out = <<>>)]_vars

\* start() was called on an engine that was running with its ticker armed.
C8_Witness ==
    /\ last = "start"
    /\ eng.note = "noop"
    /\ eng.running
    /\ \E i \in 1..Len(eng.timers) : eng.timers[i].cur /\ ~eng.timers[i].cleared

\* C9: pause() on an engine that is not running (paused, or never started) leaves
\* _trackedTime and _tickElapsed as they were.
C9_PauseNoop ==
    [][(last' = "pause" /\ ~eng.running)
        => (eng'.trackedTime = eng.trackedTime /\ eng'.tickElapsed = eng.tickElapsed)]_vars

\* C10: right after reset(): _trackedTime = 0, _cache is empty, _lastTick = now,
\* _running is what it was, and one 'reset' event has been emitted.
C10_AfterReset ==
    [][last' = "reset"
        => (/\ eng'.trackedTime = 0
            /\ eng'.cache = {}
            /\ eng'.lastTick = now'
            /\ eng'.running = eng.running
            /\ Len(SelectSeq(eng'.out, LAMBDA ev : ev.name = "reset")) = 1)]_vars

\* C11: after reset() on a running engine ticking goes on and the marks fire again:
\* every tick that runs after a reset (min and max aside) evaluates the marks, and
\* the each offsets and the multiples of the every periods that tracked time has
\* reached again have been emitted again; for each only, every only, and both.
C11_FireAgainAfterReset ==
    (resets /\ ~destroyed /\ eng.running /\ cfg.min = 0 /\ Ticked)
        => /\ eng.note = "checked"
           /\ DueMarks(FloorSec(eng.trackedTime)) \subseteq eng.cache

\* C12: reset() completes without error however often it is called, and a reset()
\* right after a reset() leaves the each list, the every watermarks, the fired set
\* and _trackedTime as the first one left them.
C12_ResetTwice ==
    [][last' = "reset"
        => (/\ eng'.note = "reset"
            /\ last = "reset"
                  => (/\ eng'.each = eng.each
                      /\ eng'.every = eng.every
                      /\ eng'.cache = eng.cache
                      /\ eng'.trackedTime = eng.trackedTime))]_vars

\* C13: once destroy() has returned, called by the user or by the max test inside
\* a tick (the first tick after a start or resume included), no tick runs,
\* _trackedTime does not change and no 'interval' event is emitted, whatever
\* timeouts are pending and whatever engagement events arrive.
C13_DestroyTerminal ==
    [][destroyed
        => (/\ eng'.trackedTime = eng.trackedTime
            /\ Marks(eng'.out) = <<>>
            /\ eng'.note \notin {"min", "max", "checked", "threw"})]_vars

\* The ticker is armed: the Interval this._Interval refers to has not been cleared.
TickerArmed(e) ==
    \E i \in 1..Len(e.timers) :
        e.timers[i].kind \in {"first", "regular"} /\ e.timers[i].cur /\ ~e.timers[i].cleared

IdleTimers(e) == SelectSeq(e.timers, LAMBDA t : t.kind = "idle")

\* C14: with idleAfter configured, the idle deadline is armed idleAfter seconds (and
\* one millisecond) ahead and at most one is pending; when it runs on a running
\* engine, the engine is paused (_running false, ticker disarmed) and one 'idle'
\* event is emitted; the tick due on the idleAfter boundary has run by then, so the
\* marks <= idleAfter have been emitted; and no 'interval' event is emitted while
\* the engine stays not running.
C14_IdleAutoPause ==
    [][/\ Len(IdleTimers(eng')) <= 1
       /\ (last' \in {"start", "later"} /\ IdleTimers(eng') # IdleTimers(eng))
             => IdleTimers(eng')[1].due = now' + cfg.idleAfter * Sec + 1
       /\ (last' = "idle" /\ ~destroyed)
             => (/\ eng.running /\ ~eng'.running /\ ~TickerArmed(eng')
                 /\ Len(SelectSeq(eng'.out, LAMBDA ev : ev.name = "idle")) = 1
                 /\ Len(SelectSeq(eng'.out, LAMBDA ev : ev.name = "pause")) = 1
                 /\ DueMarks(cfg.idleAfter) \subseteq eng'.cache)
       /\ (~eng.running /\ ~eng'.running) => Marks(eng'.out) = <<>>]_vars

\* every [1], idleAfter 1, started at construction: the tick at 1000 ms emitted the
\* mark 1, and the idle timeout at 1001 ms paused the engine.
C14_Witness ==
    /\ cfg.every = <<1>> /\ cfg.idleAfter = 1
    /\ last = "idle"
    /\ now = T0 + Sec + 1
    /\ ~eng.running
    /\ delivered = <<1>>
    /\ eng.trackedTime = Sec + 1

\* The number of events called name among the emitted events out.
Count(out, name) == Len(SelectSeq(out, LAMBDA ev : ev.name = name))

\* C15: an engagement event leaves the throttle's trailing call pending; when that
\* call finds the engine not running (idle-paused, or never started) it starts it
\* (_running true, ticker armed, one 'start' event); when it finds it running it
\* starts nothing; either way the idle deadline pending afterwards is one fresh
\* deadline a full idleAfter period ahead, the old one being gone.
C15_IdleResume ==
    [][/\ last' = "engage"
             => \E i \in 1..Len(eng'.timers) :
                    eng'.timers[i].kind = "later" /\ eng'.timers[i].due <= now'
       /\ (last' = "later" /\ ~eng.running)
             => (eng'.running /\ TickerArmed(eng') /\ Count(eng'.out, "start") = 1)
       /\ (last' = "later" /\ eng.running)
             => (eng'.running /\ Count(eng'.out, "start") = 0)
       /\ last' = "later"
             => (/\ Len(IdleTimers(eng')) = 1
                 /\ IdleTimers(eng')[1].due = now' + cfg.idleAfter * Sec + 1)]_vars

\* every [1], idleAfter 1: the engine went idle at 1001 ms, and a later engagement
\* event started it again with a fresh idle deadline.
C15_Witness ==
    /\ cfg.every = <<1>> /\ cfg.idleAfter = 1
    /\ last = "later"
    /\ eng.note = "started"
    /\ ops = 2 /\ pauses /\ ~misuse /\ ~destroyed
    /\ eng.running /\ TickerArmed(eng)
    /\ Len(IdleTimers(eng)) = 1

\* C16: a hidden transition (or blur) on a running engine calls pause() once and
\* nothing else; a hidden transition on an engine that is not running calls neither
\* pause() nor start() and changes nothing; the visible transition (or focus) that
\* finds the engine still paused by a hidden transition calls start() once and
\* nothing else; a visible transition on a running engine changes nothing.
C16_VisibilityPauseResume ==
    [][/\ (last' = "hide" /\ eng.running)
             => (/\ ~eng'.running /\ eng'.pausedOnHide
                 /\ Count(eng'.out, "pause") = 1 /\ Len(eng'.out) = 1)
       /\ (last' = "hide" /\ ~eng.running)
             => (eng'.out = <<>> /\ Code(eng') = Code(eng))
       /\ (last' = "show" /\ ~eng.running /\ eng.pausedOnHide)
             => (/\ eng'.running /\ TickerArmed(eng')
                 /\ Count(eng'.out, "start") = 1 /\ Len(eng'.out) = 1)
       /\ (last' = "show" /\ eng.running)
             => (eng'.out = <<>> /\ Code(eng') = Code(eng))]_vars

\* start(), a hidden transition, a visible transition: the engine runs again.
C16_Witness ==
    /\ last = "show"
    /\ eng.note = "started"
    /\ ops = 3 /\ pauses /\ ~misuse
    /\ eng.running /\ eng.pausedOnHide

\* C17: a visible transition right after a manual pause() of a running engine does
\* not call start(): the engine stays paused and nothing is emitted (as after
\* hide, show, pause(), hide, show).
C17_ManualPauseKept ==
    [][(last = "pause" /\ ~misuse /\ last' = "show")
        => (~eng'.running /\ eng'.out = <<>>)]_vars

\* The handler calls still deferred, in queue order.
Pending(e) ==
    LET hs == SelectSeq(e.timers, LAMBDA t : t.kind = "handler")
    IN  [i \in 1..Len(hs) |-> hs[i].arg]

\* The handler calls the events out call for, in emission order, with the handlers
\* registered in events, in registration order.
RECURSIVE Calls(_, _)
Calls(out, events) ==
    IF out = <<>> THEN <<>>
    ELSE LET ev == Head(out)
             hs == events[ev.name]
         IN  [i \in 1..Len(hs) |-> Invocation(hs[i], ev.name, ev.time)]
             \o Calls(Tail(out), events)

\* C18: the events a step emits defer one call per handler registered for the
\* event's name when the step began, with the event's data, events in emission
\* order and handlers in registration order; no step but a deferred callback calls
\* a handler, each callback calls one, and the calls made so far followed by the
\* calls still pending are the calls deferred so far, in order: each is made once,
\* in emission and registration order.
C18_HandlerDispatch ==
    [][/\ eng'.sent = eng.sent \o Calls(eng'.out, eng.events)
       /\ eng'.sent = eng'.invoked \o Pending(eng')
       /\ last' # "handler" => eng'.invoked = eng.invoked
       /\ last' = "handler"
             => (/\ eng'.invoked = Append(eng.invoked, Head(Pending(eng)))
                 /\ eng'.out = <<>>)]_vars

\* Both handlers registered for 'interval', h2 first; the deferred first tick
\* emitted the marks 1 and 2; the four calls have been made.
C18_Witness ==
    /\ eng.events["interval"] = <<"h2", "h1">>
    /\ eng.invoked = <<Invocation("h2", "interval", 1), Invocation("h1", "interval", 1),
                       Invocation("h2", "interval", 2), Invocation("h1", "interval", 2)>>
    /\ Pending(eng) = <<>>
    /\ last = "handler"

\* The values the engine schedules by: what cleanMarks keeps of every and each.
ScheduledMarks == everyInitialValues \o eachInitialValues

\* C19: construction throws whenever there is nothing to schedule: neither each nor
\* every supplied, or nothing left of them once cleanMarks has dropped the invalid
\* values (each: [] alone included); an engine that has been created has a poll
\* period that is a number.
C19_NothingToSchedule ==
    /\ (last = "new" /\ ScheduledMarks = <<>>) => eng.note = "threw"
    /\ eng.note = "constructed" => IsNum(minInterval)

\* The greatest common divisor of the non-empty set S of positive integers.
Divisors(S) == {g \in 1..MaxSeconds : \A n \in S : n % g = 0}

GreatestCommonDivisor(S) == CHOOSE g \in Divisors(S) : \A h \in Divisors(S) : h <= g

\* C20: for an engine constructed with at least one valid each or every value,
\* _minInterval is 1000 times the greatest common divisor of the values (1000 times
\* the value when there is only one), so every each offset and every period, in
\* milliseconds, is a multiple of it.
C20_PollPeriod ==
    (eng.note = "constructed" /\ ScheduledMarks # <<>>)
        => /\ minInterval = Sec * GreatestCommonDivisor(Range(ScheduledMarks))
           /\ Len(ScheduledMarks) = 1 => minInterval = Sec * ScheduledMarks[1]
           /\ \A i \in 1..Len(ScheduledMarks) : (ScheduledMarks[i] * Sec) % minInterval = 0

\* each [4, 0], every [6]: the engine polls every two seconds.
C20_Witness ==
    /\ cfg.each = <<4, 0>> /\ cfg.every = <<6>>
    /\ eng.note = "constructed"
    /\ minInterval = 2 * Sec

\* C21: with a context element configured, an engagement event dispatched outside
\* it changes nothing and emits nothing; as long as no event has started the engine
\* it is not running, _trackedTime is 0, no 'interval' event has been emitted and
\* nothing is pending; an event the listener hears leaves the throttle's call
\* pending, and that call starts an engine that is not running and arms the idle
\* deadline.
C21_ContextScoping ==
    [][/\ (cfg.context /\ last' = "outside")
             => (Code(eng') = Code(eng) /\ eng'.out = <<>>)
       /\ (~pauses' /\ ~eng'.running)
             => (/\ eng'.trackedTime = 0 /\ delivered' = <<>>
                 /\ \A i \in 1..Len(eng'.timers) : eng'.timers[i].kind = "later")
       /\ last' = "engage"
             => \E i \in 1..Len(eng'.timers) :
                    eng'.timers[i].kind = "later" /\ eng'.timers[i].due <= now'
       /\ (last' = "later" /\ ~eng.running)
             => (eng'.running /\ TickerArmed(eng') /\ Len(IdleTimers(eng')) = 1)]_vars

\* The 'should ignore events in other contexts' run: events outside the context at
\* construction and one second later have left the engine as it was constructed.
C21_Witness ==
    /\ cfg.context
    /\ last = "outside" /\ ops = 2
    /\ now = T0 + Sec
    /\ ~eng.running /\ ~pauses
    /\ eng.trackedTime = 0
    /\ eng.timers = <<>>

\* The multiples of the configured every periods that are >= min.
FloorMarks(upTo) ==
    {m \in 1..upTo : m >= cfg.min /\ \E q \in Range(cfg.every) : m % q = 0}

\* C22: with every periods only and a min, absent reset(), every mark emitted is a
\* positive multiple of a configured period and >= min, and when a tick has
\* evaluated the marks at tracked second curr every such multiple <= curr has been
\* emitted (so the first one emitted for a period is its smallest multiple >= min).
C22_MinFloor ==
    (cfg.each = <<>> /\ cfg.min # 0 /\ ~resets)
        => /\ \A i \in 1..Len(delivered) :
                 /\ delivered[i] >= cfg.min
                 /\ \E q \in Range(cfg.every) : delivered[i] > 0 /\ delivered[i] % q = 0
           /\ (eng.note = "checked" /\ IsNum(eng.trackedTime))
                 => FloorMarks(FloorSec(eng.trackedTime)) \subseteq Range(delivered)

\* C23: with idle detection configured, whenever the engine is running and has not
\* been destroyed, one idle deadline is pending (so start() after a pause() has
\* armed it).
C23_IdleArmedWhileRunning ==
    (cfg.idleAfter # 0 /\ eng.running /\ ~destroyed) => Len(IdleTimers(eng)) = 1

\* C24: when destroy() returns no idle deadline is pending, and on a destroyed
\* engine no idle timeout runs: none emits 'pause' or 'idle' or changes
\* _trackedTime.
C24_DestroyDisarmsIdle ==
    [][/\ last' = "destroy" => IdleTimers(eng') = <<>>
       /\ (destroyed /\ last' = "idle")
             => (eng'.out = <<>> /\ eng'.trackedTime = eng.trackedTime)]_vars

\* The time the pending idle deadline was armed.  Where engagement events alone
\* start the engine, that is the time throttledRestart's function last ran.
ArmedAt(e) == IdleTimers(e)[1].due - (cfg.idleAfter * Sec + 1)

\* C25: throttledRestart's function (start if not running, re-arm the idle
\* deadline) runs at most once per half idle period: when it runs while the
\* deadline armed by its last run is pending, at least idleAfter / 2 seconds have
\* passed since that run.
C25_Throttled ==
    [][(last' = "later" /\ IdleTimers(eng) # <<>>)
        => 2 * (now' - ArmedAt(eng)) >= cfg.idleAfter * Sec]_vars

\* C26: while _running is false no tick runs and no 'interval' event is emitted,
\* and _trackedTime does not grow (pause() aside); a historical startTime and a
\* late or absent start() included.
C26_OnlyWhileRunning ==
    [][~eng.running
        => (/\ eng'.note \notin {"min", "max", "checked", "threw"}
            /\ Marks(eng'.out) = <<>>
            /\ last' # "pause" => ~Gt(eng'.trackedTime, eng.trackedTime))]_vars

\* The constructor's deferred _tick has not run yet.
CtorTickPending == \E i \in 1..Len(eng.timers) : eng.timers[i].kind = "ctor"

\* C27: constructed at T0 with startTime S < T0, _trackedTime starts at T0 - S, and
\* once the constructor's deferred tick has run (reset() and pause() of an engine
\* that is not running aside) it never exceeds T0 - S plus the wall-clock time the
\* engine has been running.
C27_CreditedOnce ==
    Historical
        => /\ last = "new" => eng.trackedTime = T0 - cfg.startTime
           /\ (~CtorTickPending /\ ~resets /\ ~misuse)
                 => eng.trackedTime <= (T0 - cfg.startTime) + ranFor

\* The seconds on which an each offset and a multiple of an every period coincide.
Ties(upTo) ==
    {m \in 1..upTo : m \in Range(cfg.each) /\ \E q \in Range(cfg.every) : m % q = 0}

\* How many of the events delivered carry the mark m.
Times(m) == Len(SelectSeq(delivered, LAMBDA x : x = m))

\* C28: when a tick has evaluated the marks at tracked second curr, every second
\* m <= curr that is both an each offset (given once) and a multiple of an every
\* period (of one period only) has been emitted twice.
C28_TiesFireTwice ==
    (eng.note = "checked" /\ Len(cfg.each) <= 1 /\ Len(cfg.every) <= 1)
        => \A m \in Ties(FloorSec(eng.trackedTime)) : Times(m) = 2

\* The timeout of the live ticker is due and has not run yet.
TickDue ==
    \E i \in 1..Len(eng.timers) :
        /\ eng.timers[i].cur /\ ~eng.timers[i].cleared
        /\ eng.timers[i].due <= now

\* C29: with timers that run when due, no reset() and pause() called on a running
\* engine only: a tick runs exactly when the wall-clock time the engine has been
\* running is a positive multiple of the poll period; a pause() that finds no tick
\* due stores the running time since the last multiple (less than a poll period,
\* earlier pauses before the next tick included); start() arms the first tick one
\* poll period minus that remainder ahead; the regular ticker re-arms itself one
\* poll period ahead.
C29_TickAlignment ==
    [][~misuse'
        => (/\ (last' \in {"first", "regular"}
                    /\ eng'.note \in {"min", "max", "checked", "threw"})
                  => (ranFor' > 0 /\ ranFor' % minInterval = 0)
            /\ (last' \in {"pause", "hide"} /\ eng.running /\ ~TickDue)
                  => (/\ eng'.tickElapsed >= 0 /\ eng'.tickElapsed < minInterval
                      /\ eng'.tickElapsed = ranFor' % minInterval)
            /\ (last' \in {"start", "show"} /\ ~eng.running /\ eng'.running)
                  => \E i \in 1..Len(eng'.timers) :
                        /\ eng'.timers[i].kind = "first" /\ eng'.timers[i].cur
                        /\ ~eng'.timers[i].cleared
                        /\ eng'.timers[i].due = now' + minInterval - eng.tickElapsed
            /\ (last' \in {"first", "regular"} /\ eng'.note = "checked")
                  => \E i \in 1..Len(eng'.timers) :
                        /\ eng'.timers[i].kind = "regular" /\ eng'.timers[i].cur
                        /\ eng'.timers[i].due = now' + minInterval)]_vars

\* start(), pause() half a second later, start() half a second after that: the
\* first tick ran half a second after the resume, at one second of running time.
C29_Witness ==
    /\ last = "first" /\ eng.note = "checked"
    /\ pauses /\ ~misuse /\ ops = 3
    /\ ranFor = Sec
    /\ now = T0 + 3 * HalfSec

\* The pending timeouts of Intervals, and those of Intervals not cleared.
Tickers(e) == SelectSeq(e.timers, LAMBDA t : t.kind \in {"first", "regular"})

Live(e) == SelectSeq(Tickers(e), LAMBDA t : ~t.cleared)

\* C30: whatever the interleaving of start(), pause(), reset(), destroy(), ticks,
\* idle timeouts, engagement and visibility callbacks, at most one Interval that has
\* not been cleared has a timeout pending, and it is the one this._Interval refers
\* to; a step in which _tick ran from an Interval was the callback of that one
\* Interval, due by then; the callback of a cleared Interval changes no field, emits
\* nothing and arms no further timeout.
C30_OneLiveTicker ==
    [][/\ Len(Live(eng')) <= 1
       /\ \A i \in 1..Len(Live(eng')) : Live(eng')[i].cur
       /\ (last' \in {"first", "regular"} /\ eng'.note \in {"min", "max", "checked", "threw"})
             => (/\ Len(Live(eng)) = 1
                 /\ Live(eng)[1].kind = last'
                 /\ Live(eng)[1].due <= now')
       /\ (last' \in {"first", "regular"} /\ eng'.note = "cleared")
             => (/\ eng'.out = <<>>
                 /\ [Code(eng') EXCEPT !.timers = <<>>] = [Code(eng) EXCEPT !.timers = <<>>]
                 /\ Len(Tickers(eng')) = Len(Tickers(eng)) - 1
                 /\ Live(eng') = Live(eng))]_vars

\* The callback of a cleared Interval has just run and returned at once, while the
\* Interval of a later start() is still pending on the running engine.
C30_Witness ==
    /\ last \in {"first", "regular"} /\ eng.note = "cleared"
    /\ eng.running /\ pauses
    /\ Len(Live(eng)) = 1

\* C31: with no reset(), no historical startTime and pause() called on a running
\* engine only, an 'interval' event with time m is emitted only when the engine has
\* been running for at least m seconds of wall-clock time in all.
C31_NeverEarly ==
    (~resets /\ ~Historical /\ ~misuse /\ ~destroyed)
        => \A i \in 1..Len(Marks(eng.out)) : Marks(eng.out)[i] * Sec <= ranFor

\* C32: start() on an engine that reset() has zeroed while it was paused sets
\* _lastTick to the time of the call and arms the first tick a full poll period
\* ahead, so that the partial tick stored by the pause() before the reset is not
\* credited again and the first tick finds _trackedTime equal to the time the
\* engine has run since that start().
C32_ResetDropsRemainder ==
    [][(last' = "start" /\ resets /\ ~misuse
            /\ eng.trackedTime = 0 /\ ~eng.running /\ eng'.running)
          => (/\ eng'.lastTick = now'
              /\ \E i \in 1..Len(eng'.timers) :
                    /\ eng'.timers[i].kind = "first" /\ eng'.timers[i].cur
                    /\ ~eng'.timers[i].cleared
                    /\ eng'.timers[i].due = now' + minInterval)]_vars

====
